---------------------------- MODULE Spec2Model ----------------------------
(***************************************************************************)
(* A model of the buffer pool manager instance of BusTub together with the *)
(* two components it drives: the extendible hash table used as its page    *)
(* table and the LRU-K replacer.                                           *)
(*                                                                         *)
(* Every public operation of the manager runs under the manager's latch    *)
(* (std::scoped_lock in each ...PgImp), so one operation is one atomic     *)
(* action.  The hash table and the replacer are modelled as values with    *)
(* one operator per method; the manager's actions apply them in the order  *)
(* in which the code calls them.                                           *)
(*                                                                         *)
(* Spec is the manager under single callers, SpecConc adds two threads     *)
(* inside FetchPgImp, and SpecHash and SpecLru drive the hash table and    *)
(* the replacer through their own public methods.                          *)
(***************************************************************************)
EXTENDS Integers, Sequences, FiniteSets, TLC

(***************************************************************************)
(* Bounds of the model.                                                    *)
(***************************************************************************)
\* number of frames of the pool (constructor argument pool_size)
PoolSize == 2

\* page ids 0 .. MaxPageId-1 can be allocated; NewPage is not taken beyond
MaxPageId == 3

\* page contents are abstracted to one value in 0 .. MaxByte; 0 is the
\* zeroed buffer left by ResetMemory
MaxByte == 1

\* a behaviour is followed for MaxOps operations
MaxOps == 8

(***************************************************************************)
(* Program parameters and constants.                                       *)
(***************************************************************************)
\* constructor argument replacer_k, handed to the LRUKReplacer as k_
K == 2

\* bucket_size_ of the manager, handed to the page table
BucketSize == 1

INVALID_PAGE_ID == -1

FrameIds == 0 .. (PoolSize - 1)
PageIds == 0 .. (MaxPageId - 1)
Bytes == 0 .. MaxByte

Pow2(n) == 2 ^ n

\* the number of low hash bits that tell any two keys of the model apart
KeyBits ==
    CHOOSE n \in 0 .. MaxPageId :
        /\ Pow2(n) >= MaxPageId
        /\ \A m \in 0 .. (n - 1) : Pow2(m) < MaxPageId

--------------------------------------------------------------------------
(***************************************************************************)
(* Extendible hash table (page table).                                     *)
(*                                                                         *)
(* A table is a record                                                     *)
(*   global_depth, num_buckets : the counters of the class                 *)
(*   dir     : the directory, a sequence of bucket handles (dir_[i] is     *)
(*             dir[i+1]); a handle stands for the shared_ptr               *)
(*   buckets : handle -> [depth, list], list being the bucket's pairs in   *)
(*             insertion order                                             *)
(*   hung    : the while loop of InsertInternal has been followed to a     *)
(*             point from which it cannot end; the call does not return    *)
(***************************************************************************)

\* std::hash<int> is the identity followed by the conversion to size_t; the
\* code only ever uses the low bits of it (hash & mask with mask < 2^31),
\* and for those bits two's complement conversion agrees with TLA+'s
\* floored \div and non-negative %.
HashBit(key, bit) == (key \div Pow2(bit)) % 2

NewBucket(depth) == [depth |-> depth, list |-> <<>>]

HashTableNew ==
    [ global_depth |-> 0,
      num_buckets  |-> 1,
      dir          |-> << 0 >>,
      buckets      |-> (0 :> NewBucket(0)),
      hung         |-> FALSE ]

IndexOf(ht, key) == key % Pow2(ht.global_depth)

BucketAt(ht, index) == ht.buckets[ht.dir[index + 1]]

IsFull(b) == Len(b.list) = BucketSize

\* Bucket::Find: [found, value]
BucketFind(b, key) ==
    IF \E i \in 1 .. Len(b.list) : b.list[i].key = key
    THEN [ found |-> TRUE,
           value |-> b.list[CHOOSE i \in 1 .. Len(b.list) :
                               /\ b.list[i].key = key
                               /\ \A j \in 1 .. (i - 1) : b.list[j].key # key].value ]
    ELSE [ found |-> FALSE, value |-> -1 ]

\* Bucket::Remove: erases the first pair with the key
BucketRemove(b, key) ==
    IF \E i \in 1 .. Len(b.list) : b.list[i].key = key
    THEN LET i == CHOOSE i \in 1 .. Len(b.list) :
                     /\ b.list[i].key = key
                     /\ \A j \in 1 .. (i - 1) : b.list[j].key # key
         IN  [ ok |-> TRUE,
               b  |-> [b EXCEPT !.list = SubSeq(b.list, 1, i - 1)
                                         \o SubSeq(b.list, i + 1, Len(b.list))] ]
    ELSE [ ok |-> FALSE, b |-> b ]

\* Bucket::Insert: overwrite (returns false), refuse when full (returns
\* false), append otherwise (returns true)
BucketInsert(b, key, value) ==
    IF \E i \in 1 .. Len(b.list) : b.list[i].key = key
    THEN LET i == CHOOSE i \in 1 .. Len(b.list) :
                     /\ b.list[i].key = key
                     /\ \A j \in 1 .. (i - 1) : b.list[j].key # key
         IN  [ ok |-> FALSE, b |-> [b EXCEPT !.list[i].value = value] ]
    ELSE IF IsFull(b)
         THEN [ ok |-> FALSE, b |-> b ]
         ELSE [ ok |-> TRUE,
                b  |-> [b EXCEPT !.list = Append(b.list, [key |-> key, value |-> value])] ]

\* ExtendibleHashTable::Find
HashFind(ht, key) == BucketFind(BucketAt(ht, IndexOf(ht, key)), key)

\* ExtendibleHashTable::Remove
HashRemove(ht, key) ==
    LET h == ht.dir[IndexOf(ht, key) + 1]
        r == BucketRemove(ht.buckets[h], key)
    IN  [ ok |-> r.ok, ht |-> [ht EXCEPT !.buckets[h] = r.b] ]

\* a redistribution that puts every pair into bucket_0
RECURSIVE Redistribute_AllToB0(_, _, _, _, _)
Redistribute_AllToB0(items, i, bit, b0, b1) ==
    IF i > Len(items)
    THEN [ b0 |-> b0, b1 |-> b1 ]
    ELSE Redistribute_AllToB0(items, i + 1, bit,
                              BucketInsert(b0, items[i].key, items[i].value).b, b1)

\* the loop over target_bucket->GetItems() of InsertInternal: pair i and the
\* following ones are inserted into bucket_1 or bucket_0 by the hash bit
RECURSIVE Redistribute(_, _, _, _, _)
Redistribute(items, i, bit, b0, b1) ==
    IF i > Len(items)
    THEN [ b0 |-> b0, b1 |-> b1 ]
    ELSE IF HashBit(items[i].key, bit) # 0
         THEN Redistribute(items, i + 1, bit, b0,
                           BucketInsert(b1, items[i].key, items[i].value).b)
         ELSE Redistribute(items, i + 1, bit,
                           BucketInsert(b0, items[i].key, items[i].value).b, b1)

FreshHandle(ht) ==
    1 + (CHOOSE m \in DOMAIN ht.buckets : \A h \in DOMAIN ht.buckets : h <= m)

\* a split that rewrites only the directory entry the key indexes; the
\* other entries go on sharing the old bucket
SplitBucket_OneEntry(ht, key) ==
    LET target  == ht.dir[IndexOf(ht, key) + 1]
        tb      == ht.buckets[target]
        grow    == tb.depth = ht.global_depth
        dir1    == IF grow THEN ht.dir \o ht.dir ELSE ht.dir
        h0      == FreshHandle(ht)
        h1      == FreshHandle(ht) + 1
        parts   == Redistribute(tb.list, 1, tb.depth,
                                NewBucket(tb.depth + 1), NewBucket(tb.depth + 1))
        dir2    == [ i \in 1 .. Len(dir1) |->
                       IF i - 1 = key % Len(dir1)
                       THEN IF HashBit(i - 1, tb.depth) # 0 THEN h1 ELSE h0
                       ELSE dir1[i] ]
    IN  [ global_depth |-> IF grow THEN ht.global_depth + 1 ELSE ht.global_depth,
          num_buckets  |-> ht.num_buckets + 1,
          dir          |-> dir2,
          buckets      |-> ht.buckets @@ (h0 :> parts.b0) @@ (h1 :> parts.b1),
          hung         |-> ht.hung ]

\* a split that does not count the new bucket
SplitBucket_NoCount(ht, key) ==
    LET target  == ht.dir[IndexOf(ht, key) + 1]
        tb      == ht.buckets[target]
        grow    == tb.depth = ht.global_depth
        dir1    == IF grow THEN ht.dir \o ht.dir ELSE ht.dir
        h0      == FreshHandle(ht)
        h1      == FreshHandle(ht) + 1
        parts   == Redistribute(tb.list, 1, tb.depth,
                                NewBucket(tb.depth + 1), NewBucket(tb.depth + 1))
        dir2    == [ i \in 1 .. Len(dir1) |->
                       IF dir1[i] = target
                       THEN IF HashBit(i - 1, tb.depth) # 0 THEN h1 ELSE h0
                       ELSE dir1[i] ]
        kept    == [ h \in (DOMAIN ht.buckets) \ {target} |-> ht.buckets[h] ]
    IN  [ global_depth |-> IF grow THEN ht.global_depth + 1 ELSE ht.global_depth,
          num_buckets  |-> ht.num_buckets,
          dir          |-> dir2,
          buckets      |-> kept @@ (h0 :> parts.b0) @@ (h1 :> parts.b1),
          hung         |-> ht.hung ]

\* one iteration of the while loop of InsertInternal: the split of the
\* bucket the key indexes
SplitBucket(ht, key) ==
    LET target  == ht.dir[IndexOf(ht, key) + 1]
        tb      == ht.buckets[target]
        grow    == tb.depth = ht.global_depth
        dir1    == IF grow THEN ht.dir \o ht.dir ELSE ht.dir
        h0      == FreshHandle(ht)
        h1      == FreshHandle(ht) + 1
        parts   == Redistribute(tb.list, 1, tb.depth,
                                NewBucket(tb.depth + 1), NewBucket(tb.depth + 1))
        dir2    == [ i \in 1 .. Len(dir1) |->
                       IF dir1[i] = target
                       THEN IF HashBit(i - 1, tb.depth) # 0 THEN h1 ELSE h0
                       ELSE dir1[i] ]
        kept    == [ h \in (DOMAIN ht.buckets) \ {target} |-> ht.buckets[h] ]
    IN  [ global_depth |-> IF grow THEN ht.global_depth + 1 ELSE ht.global_depth,
          num_buckets  |-> ht.num_buckets + 1,
          dir          |-> dir2,
          buckets      |-> kept @@ (h0 :> parts.b0) @@ (h1 :> parts.b1),
          hung         |-> ht.hung ]

\* ExtendibleHashTable::InsertInternal.  The loop splits for as long as the
\* bucket of the key is full.  A bucket of local depth KeyBits or more holds
\* keys that agree on all the bits that distinguish keys, that is, one key;
\* if it is full, every further split leaves that key in the bucket the
\* key indexes and the bucket full, so the loop goes on doubling the
\* directory and never reaches the insertion: the table is left as the
\* loop has made it so far, with hung set.
RECURSIVE InsertInternal(_, _, _)
InsertInternal(ht, key, value) ==
    IF IsFull(BucketAt(ht, IndexOf(ht, key)))
    THEN IF BucketAt(ht, IndexOf(ht, key)).depth >= KeyBits
         THEN [ht EXCEPT !.hung = TRUE]
         ELSE InsertInternal(SplitBucket(ht, key), key, value)
    ELSE LET h == ht.dir[IndexOf(ht, key) + 1]
         IN  [ht EXCEPT !.buckets[h] = BucketInsert(ht.buckets[h], key, value).b]

\* ExtendibleHashTable::Insert
HashInsert(ht, key, value) == InsertInternal(ht, key, value)

\* the pairs stored in the buckets of the table
HashEntries(ht) ==
    UNION { { ht.buckets[h].list[i] : i \in 1 .. Len(ht.buckets[h].list) } :
            h \in DOMAIN ht.buckets }

--------------------------------------------------------------------------
(***************************************************************************)
(* LRU-K replacer.                                                         *)
(*                                                                         *)
(* A replacer is a record                                                  *)
(*   inf_list, countable_list : the two node lists, front first            *)
(*   hash      : the frame ids that are keys of hash_ (the iterator stored *)
(*               for a key is the position of the node with that frame id) *)
(*   curr_size : curr_size_                                                *)
(*   abort     : a BUSTUB_ASSERT of the replacer has failed                *)
(* A node is [frame_id, access_count, evictable].                          *)
(***************************************************************************)
ReplacerNew ==
    [ inf_list       |-> <<>>,
      countable_list |-> <<>>,
      hash           |-> {},
      curr_size      |-> 0,
      abort          |-> FALSE ]

\* the node emplace_back(frame_id) constructs
NewNode(frame_id) ==
    [ frame_id |-> frame_id, access_count |-> 1, evictable |-> FALSE ]

Nodes(r) ==
    { r.inf_list[i] : i \in 1 .. Len(r.inf_list) }
      \cup { r.countable_list[i] : i \in 1 .. Len(r.countable_list) }

\* *hash_[frame_id]
NodeOf(r, frame_id) == CHOOSE n \in Nodes(r) : n.frame_id = frame_id

\* list.erase(it) for the iterator of frame_id
Erase(list, frame_id) == SelectSeq(list, LAMBDA n : n.frame_id # frame_id)

\* the assignment it->evictable_ = v through the iterator of frame_id
SetFlag(list, frame_id, v) ==
    [ i \in 1 .. Len(list) |->
        IF list[i].frame_id = frame_id THEN [list[i] EXCEPT !.evictable = v]
        ELSE list[i] ]

\* LRUKReplacer::RemoveInternal
RemoveInternal(r, frame_id) ==
    IF frame_id \notin r.hash
    THEN r
    ELSE LET n == NodeOf(r, frame_id)
         IN  IF ~ n.evictable
             THEN [r EXCEPT !.abort = TRUE]
             ELSE [ inf_list       |-> IF n.access_count >= K THEN r.inf_list
                                       ELSE Erase(r.inf_list, frame_id),
                    countable_list |-> IF n.access_count >= K
                                       THEN Erase(r.countable_list, frame_id)
                                       ELSE r.countable_list,
                    hash           |-> r.hash \ {frame_id},
                    curr_size      |-> r.curr_size - 1,
                    abort          |-> r.abort ]

\* LRUKReplacer::Remove
ReplacerRemove(r, frame_id) == RemoveInternal(r, frame_id)

\* the first node of the list whose evictable_ is set
FirstEvictable(list) ==
    CHOOSE i \in 1 .. Len(list) :
        /\ list[i].evictable
        /\ \A j \in 1 .. (i - 1) : ~ list[j].evictable

HasEvictable(list) == \E i \in 1 .. Len(list) : list[i].evictable

\* an Evict that looks through countable_list_ before inf_list_
Evict_CacheFirst(r) ==
    IF HasEvictable(r.countable_list)
    THEN LET f == r.countable_list[FirstEvictable(r.countable_list)].frame_id
         IN  [ ok |-> TRUE, frame_id |-> f, r |-> RemoveInternal(r, f) ]
    ELSE IF HasEvictable(r.inf_list)
         THEN LET f == r.inf_list[FirstEvictable(r.inf_list)].frame_id
              IN  [ ok |-> TRUE, frame_id |-> f, r |-> RemoveInternal(r, f) ]
         ELSE [ ok |-> FALSE, frame_id |-> -1, r |-> r ]

\* LRUKReplacer::Evict: [ok, frame_id, r]
Evict(r) ==
    IF HasEvictable(r.inf_list)
    THEN LET f == r.inf_list[FirstEvictable(r.inf_list)].frame_id
         IN  [ ok |-> TRUE, frame_id |-> f, r |-> RemoveInternal(r, f) ]
    ELSE IF HasEvictable(r.countable_list)
         THEN LET f == r.countable_list[FirstEvictable(r.countable_list)].frame_id
              IN  [ ok |-> TRUE, frame_id |-> f, r |-> RemoveInternal(r, f) ]
         ELSE [ ok |-> FALSE, frame_id |-> -1, r |-> r ]

\* LRUKReplacer::RecordAccess
RecordAccess(r, frame_id) ==
    IF ~ (frame_id <= PoolSize)
    THEN [r EXCEPT !.abort = TRUE]
    ELSE IF frame_id \notin r.hash
         THEN IF K = 1
              THEN [r EXCEPT !.countable_list = Append(@, NewNode(frame_id)),
                             !.hash = @ \cup {frame_id}]
              ELSE [r EXCEPT !.inf_list = Append(@, NewNode(frame_id)),
                             !.hash = @ \cup {frame_id}]
         ELSE LET n    == NodeOf(r, frame_id)
                  cnt  == n.access_count + 1
                  moved == [ frame_id     |-> frame_id,
                             access_count |-> cnt,
                             evictable    |-> n.evictable ]
              IN  IF cnt < K
                  THEN [r EXCEPT !.inf_list = Append(Erase(@, frame_id), moved)]
                  ELSE IF cnt = K
                       THEN [r EXCEPT !.inf_list = Erase(@, frame_id),
                                      !.countable_list = Append(@, moved)]
                       ELSE [r EXCEPT !.countable_list =
                                          Append(Erase(@, frame_id), moved)]

\* LRUKReplacer::SetEvictable
SetEvictable(r, frame_id, set_evictable) ==
    IF ~ (frame_id <= PoolSize)
    THEN [r EXCEPT !.abort = TRUE]
    ELSE IF frame_id \notin r.hash
         THEN r
         ELSE LET n == NodeOf(r, frame_id)
              IN  IF n.evictable = set_evictable
                  THEN r
                  ELSE [r EXCEPT !.inf_list = SetFlag(@, frame_id, set_evictable),
                                 !.countable_list = SetFlag(@, frame_id, set_evictable),
                                 !.curr_size = IF set_evictable THEN @ + 1 ELSE @ - 1]

\* LRUKReplacer::Size
ReplacerSize(r) == r.curr_size

--------------------------------------------------------------------------
(***************************************************************************)
(* Buffer pool manager instance.                                           *)
(***************************************************************************)
VARIABLES
    pages,         \* pages_: frame id -> [page_id, pin_count, is_dirty, data]
    free_list,     \* free_list_, front first
    page_table,    \* page_table_, an extendible hash table page id -> frame id
    replacer,      \* replacer_
    next_page_id,  \* next_page_id_
    disk,          \* the disk manager's pages: page id -> contents
    halted,        \* the process has died (failed assertion, wild frame index)
                   \* or an operation does not return while holding the latch
    io,            \* the disk manager calls issued by the last operation
    last,          \* the last operation, its result and the frame it returned
    handed,        \* the page ids NewPage has returned so far
    rt,            \* progress of a caller's fetch, write, unpin, flush sequence
    ops            \* operations made so far

\* two threads that call FetchPage for the same page at the same time
VARIABLES
    thr            \* [phase, page, pc, latch, hit, ret, free0], see ThrIdle

\* an extendible hash table driven through its public methods
VARIABLES
    table,         \* the table
    shadow,        \* the map the calls describe: key -> the value of its last
                   \* Insert, for the keys whose last Insert no Remove followed
    hlast          \* the last call on the table and the table before it

\* an LRU-K replacer driven through its public methods
VARIABLES
    lru,           \* the replacer
    entered,       \* the tracked frames of each sequence in order of entry
    llast          \* the last call on the replacer and its result

concVars == << thr >>
hashVars == << table, shadow, hlast >>
lruVars == << lru, entered, llast >>

vars == << pages, free_list, page_table, replacer, next_page_id, disk,
           halted, io, last, handed, rt, ops, thr, table, shadow, hlast,
           lru, entered, llast >>

\* a Page as constructed, and as left by the reset of DeletePgImp
EmptyPage ==
    [ page_id |-> INVALID_PAGE_ID, pin_count |-> 0, is_dirty |-> FALSE, data |-> 0 ]

\* DiskManager::WritePage; a write under INVALID_PAGE_ID stores no page
DiskWrite(d, page_id, data) ==
    IF page_id \in DOMAIN d THEN [d EXCEPT ![page_id] = data] ELSE d

\* DiskManager::ReadPage
DiskRead(d, page_id) == d[page_id]

WriteCall(page_id) == [ kind |-> "WritePage", page_id |-> page_id ]
ReadCall(page_id) == [ kind |-> "ReadPage", page_id |-> page_id ]

\* the result of an operation that returns before it changes anything
Unchanged ==
    [ ok           |-> FALSE,
      page_id      |-> INVALID_PAGE_ID,
      frame        |-> -1,
      pages        |-> pages,
      free_list    |-> free_list,
      page_table   |-> page_table,
      replacer     |-> replacer,
      next_page_id |-> next_page_id,
      disk         |-> disk,
      io           |-> <<>>,
      fatal        |-> FALSE ]

\* BufferPoolManagerInstance::AllocatePage
AllocatePage == [ page_id |-> next_page_id, next_page_id |-> next_page_id + 1 ]

\* AcquireFrame without the else-branch that asks the replacer for a victim
AcquireFrame_FreeListOnly ==
    IF free_list # <<>>
    THEN [ ok |-> TRUE, frame_id |-> Head(free_list),
           free_list |-> Tail(free_list), replacer |-> replacer ]
    ELSE [ ok |-> FALSE, frame_id |-> -1,
           free_list |-> free_list, replacer |-> replacer ]

\* the frame GetNewPage takes: front of the free list, else the replacer's
\* victim, else none
AcquireFrame ==
    IF free_list # <<>>
    THEN [ ok |-> TRUE, frame_id |-> Head(free_list),
           free_list |-> Tail(free_list), replacer |-> replacer ]
    ELSE IF ReplacerSize(replacer) > 0
         THEN LET ev == Evict(replacer)
              IN  [ ok |-> TRUE, frame_id |-> ev.frame_id,
                    free_list |-> free_list, replacer |-> ev.r ]
         ELSE [ ok |-> FALSE, frame_id |-> -1,
                free_list |-> free_list, replacer |-> replacer ]

\* WriteBack without the WritePage call
WriteBack_Dropped(page) == [ disk |-> disk, io |-> <<>> ]

\* the write-back of GetNewPage: WritePage of the old page when it is dirty
WriteBack(page) ==
    IF page.is_dirty
    THEN [ disk |-> DiskWrite(disk, page.page_id, page.data),
           io   |-> << WriteCall(page.page_id) >> ]
    ELSE [ disk |-> disk, io |-> <<>> ]

\* the replacer calls that end GetNewPage
PinInReplacer(r, frame_id) == RecordAccess(SetEvictable(r, frame_id, FALSE), frame_id)

\* BufferPoolManagerInstance::GetNewPage
GetNewPage(page_id) ==
    LET a == AcquireFrame
    IN  IF ~ a.ok
        THEN Unchanged
        ELSE IF a.frame_id \notin FrameIds
             THEN [Unchanged EXCEPT !.fatal = TRUE]
             ELSE LET page   == pages[a.frame_id]
                      alloc  == page_id = INVALID_PAGE_ID
                      new_id == IF alloc THEN AllocatePage.page_id ELSE page_id
                      wb     == WriteBack(page)
                      pt     == HashInsert(HashRemove(page_table, page.page_id).ht,
                                           new_id, a.frame_id)
                      r      == PinInReplacer(a.replacer, a.frame_id)
                  IN  [ ok           |-> TRUE,
                        page_id      |-> new_id,
                        frame        |-> a.frame_id,
                        pages        |-> [pages EXCEPT ![a.frame_id] =
                                            [ page_id   |-> new_id,
                                              pin_count |-> 1,
                                              is_dirty  |-> FALSE,
                                              data      |-> 0 ]],
                        free_list    |-> a.free_list,
                        page_table   |-> pt,
                        replacer     |-> r,
                        next_page_id |-> IF alloc THEN AllocatePage.next_page_id
                                         ELSE next_page_id,
                        disk         |-> wb.disk,
                        io           |-> wb.io,
                        fatal        |-> r.abort \/ pt.hung ]

\* a NewPgImp that consumes a page id before it knows a frame is available
NewPgImp_AllocatesFirst ==
    LET g == GetNewPage(INVALID_PAGE_ID)
    IN  IF g.page_id = INVALID_PAGE_ID
        THEN [g EXCEPT !.next_page_id = AllocatePage.next_page_id]
        ELSE [g EXCEPT !.frame = HashFind(g.page_table, g.page_id).value]

\* BufferPoolManagerInstance::NewPgImp
NewPgImp ==
    LET g == GetNewPage(INVALID_PAGE_ID)
    IN  IF g.page_id = INVALID_PAGE_ID
        THEN g
        ELSE [g EXCEPT !.frame = HashFind(g.page_table, g.page_id).value]

\* FetchPgImp from the test of the result of page_table_->Find on: hit is
\* what Find has returned
FetchAfterFind(page_id, hit) ==
    LET g   == IF hit THEN [Unchanged EXCEPT !.page_id = page_id]
               ELSE GetNewPage(page_id)
    IN  IF g.fatal \/ g.page_id = INVALID_PAGE_ID
        THEN g
        ELSE LET frame_id == HashFind(g.page_table, g.page_id).value
             IN  IF frame_id \notin FrameIds
                 THEN [g EXCEPT !.fatal = TRUE]
                 ELSE [g EXCEPT !.ok = TRUE,
                                !.frame = frame_id,
                                !.pages[frame_id].data = DiskRead(g.disk, g.page_id),
                                !.io = Append(@, ReadCall(g.page_id))]

\* BufferPoolManagerInstance::FetchPgImp
FetchPgImp(page_id) == FetchAfterFind(page_id, HashFind(page_table, page_id).found)

\* UnpinPgImp without the SetEvictable call at pin count 0
UnpinPgImp_NoSetEvictable(page_id, is_dirty) ==
    LET f == HashFind(page_table, page_id)
    IN  IF ~ f.found
        THEN Unchanged
        ELSE IF pages[f.value].pin_count <= 0
             THEN Unchanged
             ELSE [Unchanged EXCEPT
                     !.ok = TRUE,
                     !.frame = f.value,
                     !.pages[f.value].is_dirty = (@ \/ is_dirty),
                     !.pages[f.value].pin_count = @ - 1]

\* UnpinPgImp that decrements a pin count of 0 as well
UnpinPgImp_NoZeroCheck(page_id, is_dirty) ==
    LET f == HashFind(page_table, page_id)
    IN  IF ~ f.found
        THEN Unchanged
        ELSE LET cnt == pages[f.value].pin_count - 1
                 r   == IF cnt = 0 THEN SetEvictable(replacer, f.value, TRUE)
                        ELSE replacer
             IN  [Unchanged EXCEPT
                    !.ok = TRUE,
                    !.frame = f.value,
                    !.pages[f.value].is_dirty = (@ \/ is_dirty),
                    !.pages[f.value].pin_count = cnt,
                    !.replacer = r,
                    !.fatal = r.abort]

\* BufferPoolManagerInstance::UnpinPgImp
UnpinPgImp(page_id, is_dirty) ==
    LET f == HashFind(page_table, page_id)
    IN  IF ~ f.found
        THEN Unchanged
        ELSE IF pages[f.value].pin_count <= 0
             THEN Unchanged
             ELSE LET cnt == pages[f.value].pin_count - 1
                      r   == IF cnt = 0 THEN SetEvictable(replacer, f.value, TRUE)
                             ELSE replacer
                  IN  [Unchanged EXCEPT
                         !.ok = TRUE,
                         !.frame = f.value,
                         !.pages[f.value].is_dirty = (@ \/ is_dirty),
                         !.pages[f.value].pin_count = cnt,
                         !.replacer = r,
                         !.fatal = r.abort]

\* BufferPoolManagerInstance::FlushPgImp
FlushPgImp(page_id) ==
    LET f == HashFind(page_table, page_id)
    IN  IF ~ f.found
        THEN Unchanged
        ELSE [Unchanged EXCEPT
                !.ok = TRUE,
                !.frame = f.value,
                !.disk = DiskWrite(disk, page_id, pages[f.value].data),
                !.io = << WriteCall(page_id) >>,
                !.pages[f.value].is_dirty = FALSE]

\* the loop of FlushAllPgsImp from frame i on, st being the result so far
RECURSIVE FlushFrames(_, _)
FlushFrames(i, st) ==
    IF i >= PoolSize
    THEN st
    ELSE FlushFrames(i + 1,
           [st EXCEPT
              !.disk = DiskWrite(@, st.pages[i].page_id, st.pages[i].data),
              !.io = Append(@, WriteCall(st.pages[i].page_id)),
              !.pages[i].is_dirty = FALSE])

\* BufferPoolManagerInstance::FlushAllPgsImp
FlushAllPgsImp == FlushFrames(0, [Unchanged EXCEPT !.ok = TRUE])

\* DeletePgImp without the page_table_->Remove call
DeletePgImp_KeepsEntry(page_id) ==
    LET f == HashFind(page_table, page_id)
    IN  IF ~ f.found
        THEN [Unchanged EXCEPT !.ok = TRUE]
        ELSE IF pages[f.value].pin_count > 0
             THEN Unchanged
             ELSE LET r == ReplacerRemove(replacer, f.value)
                  IN  IF r.abort
                      THEN [Unchanged EXCEPT !.fatal = TRUE]
                      ELSE [Unchanged EXCEPT
                              !.ok = TRUE,
                              !.frame = f.value,
                              !.replacer = r,
                              !.free_list = Append(free_list, f.value),
                              !.pages[f.value] = EmptyPage]

\* DeletePgImp that puts the frame at the front of the free list
DeletePgImp_PushFront(page_id) ==
    LET f == HashFind(page_table, page_id)
    IN  IF ~ f.found
        THEN [Unchanged EXCEPT !.ok = TRUE]
        ELSE IF pages[f.value].pin_count > 0
             THEN Unchanged
             ELSE LET r == ReplacerRemove(replacer, f.value)
                  IN  IF r.abort
                      THEN [Unchanged EXCEPT !.fatal = TRUE]
                      ELSE [Unchanged EXCEPT
                              !.ok = TRUE,
                              !.frame = f.value,
                              !.page_table = HashRemove(page_table, page_id).ht,
                              !.replacer = r,
                              !.free_list = << f.value >> \o free_list,
                              !.pages[f.value] = EmptyPage]

\* DeletePgImp without the replacer_->Remove call
DeletePgImp_KeepsNode(page_id) ==
    LET f == HashFind(page_table, page_id)
    IN  IF ~ f.found
        THEN [Unchanged EXCEPT !.ok = TRUE]
        ELSE IF pages[f.value].pin_count > 0
             THEN Unchanged
             ELSE [Unchanged EXCEPT
                     !.ok = TRUE,
                     !.frame = f.value,
                     !.page_table = HashRemove(page_table, page_id).ht,
                     !.free_list = Append(free_list, f.value),
                     !.pages[f.value] = EmptyPage]

\* BufferPoolManagerInstance::DeletePgImp
DeletePgImp(page_id) ==
    LET f == HashFind(page_table, page_id)
    IN  IF ~ f.found
        THEN [Unchanged EXCEPT !.ok = TRUE]
        ELSE IF pages[f.value].pin_count > 0
             THEN Unchanged
             ELSE LET r == ReplacerRemove(replacer, f.value)
                  IN  IF r.abort
                      THEN [Unchanged EXCEPT !.fatal = TRUE]
                      ELSE [Unchanged EXCEPT
                              !.ok = TRUE,
                              !.frame = f.value,
                              !.page_table = HashRemove(page_table, page_id).ht,
                              !.replacer = r,
                              !.free_list = Append(free_list, f.value),
                              !.pages[f.value] = EmptyPage]

(***************************************************************************)
(* A caller's sequence FetchPage(p); write B; UnpinPage(p, true);          *)
(* FlushPage(p), as the record rt = [phase, page, bytes]: phase counts the *)
(* steps of the sequence made so far for rt.page, and rt.bytes is B.       *)
(* Other callers' NewPage and FetchPage calls may come in between; any     *)
(* other operation ends the sequence.                                      *)
(***************************************************************************)
RtIdle == [ phase |-> 0, page |-> INVALID_PAGE_ID, bytes |-> 0 ]

RtCall(op, p, d, ok) ==
    IF rt.phase = 0
    THEN IF op = "FetchPage" /\ ok
         THEN [ phase |-> 1, page |-> p, bytes |-> 0 ]
         ELSE RtIdle
    ELSE IF op \in { "NewPage", "FetchPage" }
         THEN rt
         ELSE IF rt.phase = 2 /\ op = "UnpinPage" /\ p = rt.page /\ d
              THEN [rt EXCEPT !.phase = 3]
              ELSE IF rt.phase = 3 /\ op = "FlushPage" /\ p = rt.page
                   THEN [rt EXCEPT !.phase = 4]
                   ELSE RtIdle

RtWrite(f, b) ==
    IF rt.phase \in { 1, 2 } /\ pages[f].page_id = rt.page
    THEN [ phase |-> 2, page |-> rt.page, bytes |-> b ]
    ELSE RtIdle

(***************************************************************************)
(* Initial values of the variables of the other specifications.            *)
(***************************************************************************)
Threads == { 1, 2 }

\* no concurrent fetch has begun.  phase: "seq" while single callers run,
\* "conc" once the two threads have called FetchPage(page); pc, hit, ret:
\* per thread, the position in FetchPgImp, the result of its Find and the
\* frame of the Page it returned; latch: the thread that holds latch_, 0 if
\* none; free0: the length of the free list when the threads called
ThrIdle ==
    [ phase |-> "seq",
      page  |-> INVALID_PAGE_ID,
      pc    |-> [ t \in Threads |-> "idle" ],
      latch |-> 0,
      hit   |-> [ t \in Threads |-> FALSE ],
      ret   |-> [ t \in Threads |-> -1 ],
      free0 |-> 0 ]

HashNoCall ==
    [ op |-> "none", key |-> -1, value |-> -1, ok |-> TRUE,
      before |-> HashTableNew ]

\* no call on the replacer yet.  op: the method called; ok, ret: the result
\* of Evict; cnt: the access count the returned frame had
LruNoCall == [ op |-> "none", ok |-> TRUE, ret |-> -1, cnt |-> 0 ]

(***************************************************************************)
(* The state machine.                                                      *)
(***************************************************************************)
Init ==
    /\ pages = [ f \in FrameIds |-> EmptyPage ]
    /\ free_list = [ i \in 1 .. PoolSize |-> i - 1 ]
    /\ page_table = HashTableNew
    /\ replacer = ReplacerNew
    /\ next_page_id = 0
    /\ disk = [ p \in PageIds |-> 0 ]
    /\ halted = FALSE
    /\ io = <<>>
    /\ last = [ op |-> "none", ok |-> TRUE, frame |-> -1 ]
    /\ handed = {}
    /\ rt = RtIdle
    /\ ops = 0
    /\ thr = ThrIdle
    /\ table = HashTableNew
    /\ shadow = << >>
    /\ hlast = HashNoCall
    /\ lru = ReplacerNew
    /\ entered = [ inf |-> <<>>, countable |-> <<>> ]
    /\ llast = LruNoCall

\* the manager's state after operation op, called with page id p and flag d,
\* with result res
CommitPool(op, p, d, res) ==
    /\ ~ halted
    /\ ops < MaxOps
    /\ ops' = ops + 1
    /\ pages' = res.pages
    /\ free_list' = res.free_list
    /\ page_table' = res.page_table
    /\ replacer' = res.replacer
    /\ next_page_id' = res.next_page_id
    /\ disk' = res.disk
    /\ halted' = res.fatal
    /\ io' = res.io
    /\ last' = [ op |-> op, ok |-> res.ok, frame |-> res.frame ]
    /\ handed' = IF op = "NewPage" /\ res.ok THEN handed \cup { res.page_id }
                 ELSE handed
    /\ rt' = RtCall(op, p, d, res.ok)

\* an operation of a single caller
Commit(op, p, d, res) ==
    /\ CommitPool(op, p, d, res)
    /\ UNCHANGED << concVars, hashVars, lruVars >>

NewPage ==
    /\ next_page_id < MaxPageId
    /\ Commit("NewPage", INVALID_PAGE_ID, FALSE, NewPgImp)

\* callers fetch the pages the manager has allocated
FetchPage(p) ==
    /\ p < next_page_id
    /\ Commit("FetchPage", p, FALSE, FetchPgImp(p))

UnpinPage(p, d) == Commit("UnpinPage", p, d, UnpinPgImp(p, d))

FlushPage(p) == Commit("FlushPage", p, FALSE, FlushPgImp(p))

FlushAllPages == Commit("FlushAllPages", INVALID_PAGE_ID, FALSE, FlushAllPgsImp)

DeletePage(p) == Commit("DeletePage", p, FALSE, DeletePgImp(p))

\* a caller that holds a pin on the page of frame f writes b into its buffer
WriteBytes(f, b) ==
    /\ ~ halted
    /\ ops < MaxOps
    /\ pages[f].page_id # INVALID_PAGE_ID
    /\ pages[f].pin_count > 0
    /\ ops' = ops + 1
    /\ pages' = [pages EXCEPT ![f].data = b]
    /\ io' = <<>>
    /\ last' = [ op |-> "WriteBytes", ok |-> TRUE, frame |-> f ]
    /\ rt' = RtWrite(f, b)
    /\ UNCHANGED << free_list, page_table, replacer, next_page_id, disk,
                    halted, handed >>
    /\ UNCHANGED << concVars, hashVars, lruVars >>

Next ==
    \/ NewPage
    \/ \E p \in PageIds : FetchPage(p)
    \/ \E p \in PageIds, d \in BOOLEAN : UnpinPage(p, d)
    \/ \E p \in PageIds : FlushPage(p)
    \/ FlushAllPages
    \/ \E p \in PageIds : DeletePage(p)
    \/ \E f \in FrameIds, b \in Bytes : WriteBytes(f, b)

Spec == Init /\ [][Next]_vars

--------------------------------------------------------------------------
(***************************************************************************)
(* Two threads in FetchPgImp.                                              *)
(*                                                                         *)
(* After at most MaxPrefix operations of single callers, two threads call  *)
(* FetchPage for the same page, which is not resident, while the free list *)
(* is not empty.  A thread takes latch_ (the std::scoped_lock at the top   *)
(* of FetchPgImp), looks the page up, does the rest of FetchPgImp and      *)
(* releases the latch on return.                                           *)
(***************************************************************************)
MaxPrefix == 5

\* a latch that excludes nobody
LatchFree_NoExclusion == TRUE

\* std::scoped_lock<std::mutex> lock(latch_) can be taken
LatchFree == thr.latch = 0

BeginFetch(p) ==
    /\ thr.phase = "seq"
    /\ ~ halted
    /\ p < next_page_id
    /\ ~ HashFind(page_table, p).found
    /\ free_list # << >>
    /\ thr' = [ThrIdle EXCEPT !.phase = "conc",
                              !.page = p,
                              !.pc = [ t \in Threads |-> "lock" ],
                              !.free0 = Len(free_list)]
    /\ UNCHANGED << pages, free_list, page_table, replacer, next_page_id, disk,
                    halted, io, last, handed, rt, ops, hashVars, lruVars >>

Lock(t) ==
    /\ thr.pc[t] = "lock"
    /\ LatchFree
    /\ thr' = [thr EXCEPT !.latch = t, !.pc[t] = "find"]
    /\ UNCHANGED << pages, free_list, page_table, replacer, next_page_id, disk,
                    halted, io, last, handed, rt, ops, hashVars, lruVars >>

\* page_table_->Find(page_id, frame_id)
FindStep(t) ==
    /\ thr.pc[t] = "find"
    /\ thr' = [thr EXCEPT !.hit[t] = HashFind(page_table, thr.page).found,
                          !.pc[t] = "rest"]
    /\ UNCHANGED << pages, free_list, page_table, replacer, next_page_id, disk,
                    halted, io, last, handed, rt, ops, hashVars, lruVars >>

\* from the test of Find's result to the return statement
RestStep(t) ==
    /\ thr.pc[t] = "rest"
    /\ LET res == FetchAfterFind(thr.page, thr.hit[t])
       IN  /\ CommitPool("FetchPage", thr.page, FALSE, res)
           /\ thr' = [thr EXCEPT !.ret[t] = IF res.ok THEN res.frame ELSE -1,
                                 !.pc[t] = "unlock"]
    /\ UNCHANGED << hashVars, lruVars >>

\* the destructor of the lock
Unlock(t) ==
    /\ thr.pc[t] = "unlock"
    /\ ~ halted
    /\ thr' = [thr EXCEPT !.latch = 0, !.pc[t] = "done"]
    /\ UNCHANGED << pages, free_list, page_table, replacer, next_page_id, disk,
                    halted, io, last, handed, rt, ops, hashVars, lruVars >>

NextConc ==
    \/ thr.phase = "seq" /\ ops < MaxPrefix /\ Next
    \/ \E p \in PageIds : BeginFetch(p)
    \/ \E t \in Threads : Lock(t)
    \/ \E t \in Threads : FindStep(t)
    \/ \E t \in Threads : RestStep(t)
    \/ \E t \in Threads : Unlock(t)

SpecConc == Init /\ [][NextConc]_vars

--------------------------------------------------------------------------
(***************************************************************************)
(* The extendible hash table on its own: a table of page ids to frame ids  *)
(* as the manager constructs it, driven by arbitrary Insert, Remove and    *)
(* Find calls.  Each method holds the table's latch_ for its whole body,   *)
(* so a call is one action.  A call of Insert that does not return keeps   *)
(* the latch: no later call gets in.                                       *)
(***************************************************************************)
TableInsert(k, v) ==
    /\ ~ table.hung
    /\ table' = HashInsert(table, k, v)
    /\ shadow' = [ x \in (DOMAIN shadow) \cup { k } |->
                     IF x = k THEN v ELSE shadow[x] ]
    /\ hlast' = [ op |-> "Insert", key |-> k, value |-> v, ok |-> TRUE,
                  before |-> table ]
    /\ UNCHANGED << pages, free_list, page_table, replacer, next_page_id, disk,
                    halted, io, last, handed, rt, ops, concVars, lruVars >>

TableRemove(k) ==
    /\ ~ table.hung
    /\ LET res == HashRemove(table, k)
       IN  /\ table' = res.ht
           /\ hlast' = [ op |-> "Remove", key |-> k, value |-> -1, ok |-> res.ok,
                         before |-> table ]
    /\ shadow' = [ x \in (DOMAIN shadow) \ { k } |-> shadow[x] ]
    /\ UNCHANGED << pages, free_list, page_table, replacer, next_page_id, disk,
                    halted, io, last, handed, rt, ops, concVars, lruVars >>

TableFind(k) ==
    /\ ~ table.hung
    /\ LET res == HashFind(table, k)
       IN  hlast' = [ op |-> "Find", key |-> k, value |-> res.value,
                      ok |-> res.found, before |-> table ]
    /\ UNCHANGED << table, shadow >>
    /\ UNCHANGED << pages, free_list, page_table, replacer, next_page_id, disk,
                    halted, io, last, handed, rt, ops, concVars, lruVars >>

NextHash ==
    \/ \E k \in PageIds, v \in FrameIds : TableInsert(k, v)
    \/ \E k \in PageIds : TableRemove(k)
    \/ \E k \in PageIds : TableFind(k)

SpecHash == Init /\ [][NextHash]_vars

--------------------------------------------------------------------------
(***************************************************************************)
(* The LRU-K replacer on its own, constructed as the manager constructs    *)
(* it (PoolSize frames, K) and driven by arbitrary RecordAccess,           *)
(* SetEvictable, Remove and Evict calls; the frame ids callers pass        *)
(* include PoolSize, the id next to the range 0 .. PoolSize-1.  A method    *)
(* holds the replacer's latch_ for its whole body, so a call is one        *)
(* action.  A failed BUSTUB_ASSERT ends the process.                       *)
(*                                                                         *)
(* entered keeps, beside the replacer, the tracked frames with fewer than  *)
(* K accesses in the order of their first access (inf) and those with K or *)
(* more in the order in which they reached K accesses (countable).         *)
(***************************************************************************)
CallerFrameIds == 0 .. PoolSize

Without(seq, frame_id) == SelectSeq(seq, LAMBDA x : x # frame_id)

\* entered after a RecordAccess(frame_id) that replacer r accepts
EnteredAfterAccess(r, frame_id) ==
    IF frame_id \notin r.hash
    THEN IF K = 1
         THEN [entered EXCEPT !.countable = Append(@, frame_id)]
         ELSE [entered EXCEPT !.inf = Append(@, frame_id)]
    ELSE IF NodeOf(r, frame_id).access_count + 1 = K
         THEN [ inf       |-> Without(entered.inf, frame_id),
                countable |-> Append(entered.countable, frame_id) ]
         ELSE entered

\* entered once replacer r2 is the replacer
EnteredAfterRemoval(r2) ==
    [ inf       |-> SelectSeq(entered.inf, LAMBDA x : x \in r2.hash),
      countable |-> SelectSeq(entered.countable, LAMBDA x : x \in r2.hash) ]

LruCall(op, ok, ret, r2) ==
    /\ ~ lru.abort
    /\ ops < MaxOps
    /\ ops' = ops + 1
    /\ lru' = r2
    /\ llast' = [ op |-> op, ok |-> ok, ret |-> ret,
                  cnt |-> IF ret \in lru.hash THEN NodeOf(lru, ret).access_count
                          ELSE 0 ]
    /\ UNCHANGED << pages, free_list, page_table, replacer, next_page_id, disk,
                    halted, io, last, handed, rt, concVars, hashVars >>

LruRecordAccess(f) ==
    LET r2 == RecordAccess(lru, f)
    IN  /\ LruCall("RecordAccess", TRUE, -1, r2)
        /\ entered' = IF r2.abort THEN entered ELSE EnteredAfterAccess(lru, f)

LruSetEvictable(f, b) ==
    /\ LruCall("SetEvictable", TRUE, -1, SetEvictable(lru, f, b))
    /\ UNCHANGED entered

LruRemove(f) ==
    LET r2 == ReplacerRemove(lru, f)
    IN  /\ LruCall("Remove", TRUE, -1, r2)
        /\ entered' = EnteredAfterRemoval(r2)

LruEvict ==
    LET e == Evict(lru)
    IN  /\ LruCall("Evict", e.ok, e.frame_id, e.r)
        /\ entered' = EnteredAfterRemoval(e.r)

NextLru ==
    \/ \E f \in CallerFrameIds : LruRecordAccess(f)
    \/ \E f \in CallerFrameIds, b \in BOOLEAN : LruSetEvictable(f, b)
    \/ \E f \in CallerFrameIds : LruRemove(f)
    \/ LruEvict

SpecLru == Init /\ [][NextLru]_vars

--------------------------------------------------------------------------
(***************************************************************************)
(* Properties of the buffer pool manager.                                  *)
(***************************************************************************)
Resident(p) == \E f \in FrameIds : pages[f].page_id = p

FrameOf(p) == CHOOSE f \in FrameIds : pages[f].page_id = p

\* frame f has a node in replacer r and the node's evictable_ is set
Evictable(r, f) == f \in r.hash /\ NodeOf(r, f).evictable

\* the manager's own state is as it was before the step
ManagerUnchanged ==
    UNCHANGED << pages, free_list, page_table, replacer, next_page_id, disk >>

\* C1: FetchPage(p) of a page that is resident with pin count n returns p's
\* frame with pin count n + 1, and the frame is not evictable in the replacer.
C1_FetchResidentPins ==
    [][ \A p \in PageIds :
          (FetchPage(p) /\ Resident(p)) =>
             LET f == FrameOf(p)
             IN  /\ last'.ok
                 /\ last'.frame = f
                 /\ pages'[f].pin_count = pages[f].pin_count + 1
                 /\ ~ Evictable(replacer', f) ]_vars

\* C2: FetchPage(p) of a resident page issues no ReadPage and leaves the
\* bytes of p's frame as they were.
C2_FetchResidentReadsNothing ==
    [][ \A p \in PageIds :
          (FetchPage(p) /\ Resident(p)) =>
             /\ \A i \in 1 .. Len(io') : io'[i].kind # "ReadPage"
             /\ pages'[FrameOf(p)].data = pages[FrameOf(p)].data ]_vars

\* C3: a resident frame is evictable in the replacer exactly when its pin
\* count is 0, and no assertion of the replacer (the one of Remove among
\* them) has failed.
C3_EvictableIffUnpinned ==
    /\ \A f \in FrameIds :
         pages[f].page_id # INVALID_PAGE_ID =>
            (Evictable(replacer, f) <=> pages[f].pin_count = 0)
    /\ ~ halted
    /\ ~ replacer.abort

\* DeletePage has removed an unpinned frame from the replacer while another
\* frame is resident and pinned
C3_Witness ==
    /\ last.op = "DeletePage" /\ last.ok /\ last.frame \in FrameIds
    /\ \E g \in FrameIds :
         /\ pages[g].page_id # INVALID_PAGE_ID
         /\ pages[g].pin_count > 0
         /\ ~ Evictable(replacer, g)

C5_DirtyWrittenBack ==
    [][ \A f \in FrameIds :
          ( /\ pages[f].is_dirty
            /\ pages[f].page_id # INVALID_PAGE_ID
            /\ pages'[f].page_id # INVALID_PAGE_ID
            /\ pages'[f].page_id # pages[f].page_id ) =>
             /\ io' # <<>>
             /\ io'[1] = WriteCall(pages[f].page_id)
             /\ disk'[pages[f].page_id] = pages[f].data
             /\ ~ pages'[f].is_dirty ]_vars

\* NewPage or FetchPage has evicted a dirty page whose bytes were not zero
C5_Witness ==
    /\ last.op \in { "NewPage", "FetchPage" } /\ last.ok
    /\ io # <<>>
    /\ io[1].kind = "WritePage"
    /\ disk[io[1].page_id] # 0
    /\ ~ Resident(io[1].page_id)

\* no frame can be had: the free list is empty and every frame is pinned
NoFrameAvailable ==
    /\ free_list = <<>>
    /\ \A f \in FrameIds : pages[f].pin_count > 0

\* what C6 says of a call that has to bind page id id to a frame
BindsFrame(id) ==
    /\ last'.ok <=> ~ NoFrameAvailable
    /\ ~ last'.ok => last'.frame = -1
    /\ last'.ok =>
         /\ last'.frame \in FrameIds
         /\ pages'[last'.frame].page_id = id
         /\ pages'[last'.frame].pin_count = 1
         /\ ~ pages'[last'.frame].is_dirty

\* C6: NewPage, and FetchPage of a page that is not resident, fail exactly
\* when the free list is empty and every frame is pinned; otherwise they
\* return a frame with pin count 1, clean, bound to the fresh or the
\* requested page id.
C6_FailsOnlyWhenAllPinned ==
    [][ /\ NewPage => BindsFrame(next_page_id)
        /\ \A p \in PageIds :
             (FetchPage(p) /\ ~ Resident(p)) => BindsFrame(p) ]_vars

\* a NewPage or FetchPage call has failed with every frame pinned
C6_Witness ==
    /\ last.op \in { "NewPage", "FetchPage" }
    /\ ~ last.ok
    /\ NoFrameAvailable

\* C7: UnpinPage(p, d) returns false and changes nothing when p is not
\* resident or its pin count is 0; otherwise it returns true, takes one from
\* the pin count, sets the dirty flag to (old flag or d), leaves the rest of
\* the frames alone and leaves the frame evictable exactly when the count is 0.
C7_UnpinPage ==
    [][ \A p \in PageIds, d \in BOOLEAN :
          UnpinPage(p, d) =>
             IF ~ Resident(p) \/ pages[FrameOf(p)].pin_count = 0
             THEN ~ last'.ok /\ ManagerUnchanged
             ELSE LET f == FrameOf(p)
                  IN  /\ last'.ok
                      /\ pages'[f].pin_count = pages[f].pin_count - 1
                      /\ pages'[f].is_dirty = (pages[f].is_dirty \/ d)
                      /\ pages'[f].page_id = p
                      /\ pages'[f].data = pages[f].data
                      /\ \A g \in FrameIds \ {f} : pages'[g] = pages[g]
                      /\ Evictable(replacer', f) <=> pages'[f].pin_count = 0
                      /\ UNCHANGED << free_list, page_table, next_page_id, disk >> ]_vars

\* UnpinPage(p, true) has brought a pin count to 0: the frame is dirty and
\* evictable
C7_Witness ==
    /\ last.op = "UnpinPage" /\ last.ok
    /\ pages[last.frame].pin_count = 0
    /\ pages[last.frame].is_dirty
    /\ Evictable(replacer, last.frame)

\* the three cases of DeletePage(p)
DeleteCases(p) ==
    IF ~ Resident(p)
    THEN last'.ok /\ ManagerUnchanged
    ELSE IF pages[FrameOf(p)].pin_count > 0
         THEN ~ last'.ok /\ ManagerUnchanged
         ELSE LET f == FrameOf(p)
              IN  /\ last'.ok
                  /\ ~ HashFind(page_table', p).found
                  /\ f \notin replacer'.hash
                  /\ free_list' = Append(free_list, f)
                  /\ pages'[f] = EmptyPage
                  /\ \A g \in FrameIds \ {f} : pages'[g] = pages[g]

\* the last operation was a DeletePage that freed a frame
JustFreed == last.op = "DeletePage" /\ last.ok /\ last.frame \in FrameIds

\* C8 as claimed: the three cases of DeletePage, and the NewPage that follows
\* a DeletePage which freed a frame returns that frame under a page id that
\* NewPage has not returned before.
C8_NextNewPageReusesFreedFrame ==
    [][ /\ \A p \in PageIds : DeletePage(p) => DeleteCases(p)
        /\ (JustFreed /\ NewPage) =>
              /\ last'.ok
              /\ last'.frame = last.frame
              /\ pages'[last'.frame].page_id \notin handed ]_vars

\* C8 as amended: the three cases of DeletePage, and the NewPage that follows
\* a DeletePage which freed a frame returns the frame at the front of the
\* free list, which is the freed frame when the free list holds no other
\* frame, under a page id that NewPage has not returned before.
C8_NextNewPageTakesFrontOfFreeList ==
    [][ /\ \A p \in PageIds : DeletePage(p) => DeleteCases(p)
        /\ (JustFreed /\ NewPage) =>
              /\ last'.ok
              /\ last'.frame = Head(free_list)
              /\ Len(free_list) = 1 => last'.frame = last.frame
              /\ pages'[last'.frame].page_id \notin handed ]_vars

\* DeletePage has freed a frame, the free list holds that frame alone and
\* NewPage can be called
C8_Witness ==
    /\ JustFreed
    /\ free_list = << last.frame >>
    /\ handed # {}
    /\ next_page_id < MaxPageId
    /\ ops < MaxOps

\* C9: FlushAllPages issues WritePage once for each resident page, under its
\* page id, and nothing else; no frame is dirty afterwards.
C9_FlushAllWritesResidentPages ==
    last.op = "FlushAllPages" =>
       /\ \A i \in 1 .. Len(io) :
            /\ io[i].kind = "WritePage"
            /\ io[i].page_id # INVALID_PAGE_ID
            /\ Resident(io[i].page_id)
       /\ \A f \in FrameIds :
            pages[f].page_id # INVALID_PAGE_ID =>
               Cardinality({ i \in 1 .. Len(io) :
                               io[i].page_id = pages[f].page_id }) = 1
       /\ \A f \in FrameIds : ~ pages[f].is_dirty

\* C10: once a caller has made FetchPage(p), written B, UnpinPage(p, true)
\* and FlushPage(p), with nothing but NewPage and FetchPage calls of other
\* callers in between, a FetchPage(p) that returns a frame returns it with
\* bytes B; FlushPage(p) returns false and writes nothing when p is not
\* resident, and otherwise writes the frame's bytes under p and clears the
\* dirty flag.
C10_FlushedBytesComeBack ==
    [][ \A p \in PageIds :
          /\ (rt.phase = 4 /\ rt.page = p /\ FetchPage(p) /\ last'.ok) =>
                pages'[last'.frame].data = rt.bytes
          /\ FlushPage(p) =>
                IF ~ Resident(p)
                THEN ~ last'.ok /\ io' = <<>> /\ ManagerUnchanged
                ELSE /\ last'.ok
                     /\ io' = << WriteCall(p) >>
                     /\ disk'[p] = pages[FrameOf(p)].data
                     /\ ~ pages'[FrameOf(p)].is_dirty ]_vars


--------------------------------------------------------------------------
(***************************************************************************)
(* Properties of concurrent fetches.                                       *)
(***************************************************************************)
BothReturned == thr.phase = "conc" /\ \A t \in Threads : thr.pc[t] = "done"

\* the positions of the page table's buckets that hold a pair with the key
EntriesOf(ht, key) ==
    { << h, i >> \in (DOMAIN ht.buckets) \X (1 .. BucketSize) :
         /\ i <= Len(ht.buckets[h].list)
         /\ ht.buckets[h].list[i].key = key }

\* C11: when two threads call FetchPage(p) at the same time for a page that
\* is not resident while a free frame is available, then under every
\* interleaving both calls return the same frame, p is bound to exactly one
\* frame and has exactly one page table entry, and exactly one frame has
\* been taken from the free list.
C11_ConcurrentFetchBindsOnce ==
    BothReturned =>
        /\ thr.ret[1] \in FrameIds
        /\ thr.ret[1] = thr.ret[2]
        /\ { f \in FrameIds : pages[f].page_id = thr.page } = { thr.ret[1] }
        /\ Cardinality(EntriesOf(page_table, thr.page)) = 1
        /\ HashFind(page_table, thr.page).value = thr.ret[1]
        /\ Len(free_list) = thr.free0 - 1

C11_Witness ==
    /\ BothReturned
    /\ thr.ret[1] \in FrameIds
    /\ thr.free0 = 1
    /\ page_table.global_depth > 0


--------------------------------------------------------------------------
(***************************************************************************)
(* Free list and replacer of the buffer pool manager.                      *)
(***************************************************************************)

\* C18: after any sequence of NewPage, FetchPage, UnpinPage, FlushPage and
\* DeletePage, no frame id is both in the free list and tracked by the
\* replacer, and no frame id is in the free list twice.
C18_FreeListDisjointFromReplacer ==
    /\ \A i \in 1 .. Len(free_list) : free_list[i] \notin replacer.hash
    /\ \A i, j \in 1 .. Len(free_list) : free_list[i] = free_list[j] => i = j

C18_Witness ==
    /\ last.op = "DeletePage" /\ last.ok /\ last.frame \in FrameIds
    /\ \E i \in 1 .. Len(free_list) : free_list[i] = last.frame
    /\ replacer.hash # {}


--------------------------------------------------------------------------
(***************************************************************************)
(* Properties of the extendible hash table.                                *)
(***************************************************************************)

OtherEntries(ht, key) == { e \in HashEntries(ht) : e.key # key }

\* C13: Insert(k, v) for a key the table holds only overwrites the key's
\* value: it makes no split, leaves global_depth, num_buckets, the directory
\* and every other pair as they were, and stores v; also when the bucket of
\* k is full.
C13_InsertOfPresentKeyOnlyOverwrites ==
    (hlast.op = "Insert" /\ HashFind(hlast.before, hlast.key).found) =>
        /\ ~ table.hung
        /\ table.global_depth = hlast.before.global_depth
        /\ table.num_buckets = hlast.before.num_buckets
        /\ table.dir = hlast.before.dir
        /\ OtherEntries(table, hlast.key) = OtherEntries(hlast.before, hlast.key)
        /\ HashFind(table, hlast.key).value = hlast.value

\* the directory indices that refer to bucket h
Referrers(ht, h) == { i \in 0 .. (Len(ht.dir) - 1) : ht.dir[i + 1] = h }

\* C19: the directory has 2^global_depth entries, every bucket's local depth
\* is at most global_depth, and each bucket is referred to by exactly
\* 2^(global_depth - local_depth) entries, those whose indices agree on the
\* low local_depth bits; no entry still refers to a bucket that was split.
C19_DirectoryShape ==
    /\ Len(table.dir) = Pow2(table.global_depth)
    /\ \A i \in 1 .. Len(table.dir) : table.dir[i] \in DOMAIN table.buckets
    /\ \A h \in DOMAIN table.buckets :
          LET ld == table.buckets[h].depth
          IN  /\ ld <= table.global_depth
              /\ Cardinality(Referrers(table, h)) = Pow2(table.global_depth - ld)
              /\ \A i, j \in Referrers(table, h) : i % Pow2(ld) = j % Pow2(ld)
              /\ \A i \in Referrers(table, h) :
                    \A j \in 0 .. (Len(table.dir) - 1) :
                        j % Pow2(ld) = i % Pow2(ld) => j \in Referrers(table, h)

C19_Witness ==
    /\ hlast.op = "Insert"
    /\ table.num_buckets > hlast.before.num_buckets
    /\ table.global_depth = 2
    /\ \E h \in DOMAIN table.buckets : table.buckets[h].depth = 1

\* C20: every Insert call ends after finitely many splits and leaves its
\* pair stored, for every bucket capacity > 0 and every key, whether or not
\* the table already holds the key.
C20_InsertReturnsWithPairStored ==
    hlast.op = "Insert" =>
        /\ ~ table.hung
        /\ HashFind(table, hlast.key).found
        /\ HashFind(table, hlast.key).value = hlast.value


--------------------------------------------------------------------------
(***************************************************************************)
(* Properties of the LRU-K replacer.                                       *)
(***************************************************************************)
EvictableNodes(r) == { n \in Nodes(r) : n.evictable }

\* the nodes of r other than frame f's
OtherNodes(r, f) == { n \in Nodes(r) : n.frame_id # f }

\* C14: Evict returns false and changes nothing when no tracked frame is
\* evictable.  Otherwise it returns an evictable frame, one with fewer than
\* K accesses if any such frame is evictable and one with K or more only if
\* none is; the frame is untracked afterwards, Size is one less and the other
\* nodes are as before.
C14_Evict ==
    [][ LruEvict =>
          IF EvictableNodes(lru) = {}
          THEN ~ llast'.ok /\ lru' = lru
          ELSE /\ llast'.ok
               /\ Evictable(lru, llast'.ret)
               /\ (\E n \in EvictableNodes(lru) : n.access_count < K)
                      => NodeOf(lru, llast'.ret).access_count < K
               /\ llast'.ret \notin lru'.hash
               /\ Nodes(lru') = OtherNodes(lru, llast'.ret)
               /\ ReplacerSize(lru') = ReplacerSize(lru) - 1
               /\ ~ lru'.abort ]_vars

\* Evict has returned a frame with K accesses while a frame with fewer was
\* tracked but pinned, and another frame is still evictable
C14_Witness ==
    /\ llast.op = "Evict" /\ llast.ok
    /\ llast.cnt >= K
    /\ lru.inf_list # << >>
    /\ EvictableNodes(lru) # {}


\* the sequence of entered that holds frame f
EnteredSeqOf(f) ==
    IF \E i \in 1 .. Len(entered.inf) : entered.inf[i] = f
    THEN entered.inf
    ELSE entered.countable

\* C15: among the evictable frames of one sequence Evict takes the one that
\* entered the sequence first: with fewer than K accesses the frame whose
\* first access was recorded first, with K or more the frame that reached K
\* accesses first; also when a frame has been accessed again without
\* leaving its sequence.
C15_EvictTakesEarliestEntered ==
    [][ (LruEvict /\ llast'.ok) =>
          LET seq == EnteredSeqOf(llast'.ret)
          IN  \A i \in 1 .. Len(seq) :
                 seq[i] = llast'.ret =>
                    \A j \in 1 .. (i - 1) : ~ Evictable(lru, seq[j]) ]_vars

SizeCountsEvictable == ReplacerSize(lru) = Cardinality(EvictableNodes(lru))

SizeWithinPool == 0 <= ReplacerSize(lru) /\ ReplacerSize(lru) <= PoolSize

\* RecordAccess leaves Size and every node's evictable flag as they were
RecordAccessKeepsSize ==
    \A f \in CallerFrameIds :
        LruRecordAccess(f) =>
            /\ ReplacerSize(lru') = ReplacerSize(lru)
            /\ \A g \in lru.hash : Evictable(lru', g) = Evictable(lru, g)
            /\ f \notin lru.hash => ~ Evictable(lru', f)

\* SetEvictable moves Size by one when it changes the flag of a tracked node
\* and does nothing otherwise
SetEvictableMovesSize ==
    \A f \in CallerFrameIds, b \in BOOLEAN :
        LruSetEvictable(f, b) =>
            IF f \in lru.hash /\ NodeOf(lru, f).evictable # b
            THEN /\ ReplacerSize(lru') = ReplacerSize(lru) + (IF b THEN 1 ELSE -1)
                 /\ Evictable(lru', f) = b
            ELSE lru' = lru

\* C16: Size() is the number of tracked nodes whose evictable flag is set
\* and lies in 0 .. pool_size; RecordAccess changes neither Size nor a
\* node's flag; SetEvictable changes Size by exactly one when it changes the
\* flag of a tracked node and has no effect otherwise.
C16_SizeBookkeeping ==
    /\ [](SizeCountsEvictable /\ SizeWithinPool)
    /\ [][RecordAccessKeepsSize /\ SetEvictableMovesSize]_vars

\* C16 without the upper bound on Size
C16_SizeBookkeepingBelow ==
    /\ [](SizeCountsEvictable /\ 0 <= ReplacerSize(lru))
    /\ [][RecordAccessKeepsSize /\ SetEvictableMovesSize]_vars

\* C17: RecordAccess and SetEvictable end the process for every frame id
\* outside 0 .. pool_size-1, pool_size included, so that the replacer never
\* tracks such a frame and never tracks more than pool_size frames.
C17_OutOfRangeIsFatal ==
    /\ [](/\ \A f \in lru.hash : f \in FrameIds
          /\ Cardinality(lru.hash) <= PoolSize)
    /\ [][ \A f \in CallerFrameIds \ FrameIds :
              (LruRecordAccess(f) \/ \E b \in BOOLEAN : LruSetEvictable(f, b))
                 => lru'.abort ]_vars


--------------------------------------------------------------------------
(***************************************************************************)
(* The bucket counter of the hash table.                                   *)
(***************************************************************************)

\* the buckets the directory refers to
ReferencedBuckets(ht) == { ht.dir[i] : i \in 1 .. Len(ht.dir) }

\* the splits made between table a and the later table b: every split
\* makes two buckets (std::make_shared twice), and handles are given out in
\* increasing order
SplitsBetween(a, b) == (FreshHandle(b) - FreshHandle(a)) \div 2

\* C21: num_buckets starts at 1, grows by exactly one per bucket split and
\* by nothing else (Remove and Find change neither it nor global_depth),
\* and in every state is the number of distinct buckets the directory
\* refers to.
C21_NumBucketsCountsBuckets ==
    /\ table.num_buckets = Cardinality(ReferencedBuckets(table))
    /\ hlast.op = "none" => table.num_buckets = 1
    /\ hlast.op \in { "Remove", "Find" } =>
          /\ table.num_buckets = hlast.before.num_buckets
          /\ table.global_depth = hlast.before.global_depth
    /\ hlast.op = "Insert" =>
          table.num_buckets =
              hlast.before.num_buckets + SplitsBetween(hlast.before, table)

\* an Insert that has split twice, and a bucket the splits left empty
C21_Witness ==
    /\ hlast.op = "Insert"
    /\ ~ table.hung
    /\ SplitsBetween(hlast.before, table) = 2
    /\ \E h \in ReferencedBuckets(table) : table.buckets[h].list = << >>


--------------------------------------------------------------------------
(***************************************************************************)
(* Failed calls and the page id allocator of the buffer pool manager.      *)
(***************************************************************************)

\* the call op of the step has returned null without ending the process
CallFailed(op) == last'.op = op /\ ~ last'.ok /\ ~ halted'

\* C22: a NewPage or FetchPage call that fails because no frame is
\* available changes nothing: no page id is consumed, no disk call is made,
\* and the free list, the page table, the replacer and every frame's page
\* id, pin count, dirty flag and bytes are as before.  The page id of a
\* successful NewPage is therefore greater than every page id handed out
\* before it.
C22_FailedCallChangesNothing ==
    [][ /\ (CallFailed("NewPage") /\ NewPage) =>
              /\ NoFrameAvailable
              /\ ManagerUnchanged
              /\ io' = << >>
              /\ handed' = handed
        /\ \A p \in PageIds :
              (CallFailed("FetchPage") /\ FetchPage(p)) =>
                 /\ NoFrameAvailable
                 /\ ManagerUnchanged
                 /\ io' = << >>
        /\ (last'.op = "NewPage" /\ last'.ok /\ NewPage) =>
              /\ last'.frame \in FrameIds
              /\ handed' = handed \cup { pages'[last'.frame].page_id }
              /\ \A q \in handed : q < pages'[last'.frame].page_id
              /\ next_page_id' = pages'[last'.frame].page_id + 1 ]_vars

\* a FetchPage has failed after page ids were handed out and a page was
\* evicted, with page ids left to hand out
C22_Witness ==
    /\ last.op = "FetchPage" /\ ~ last.ok /\ ~ halted
    /\ NoFrameAvailable
    /\ Cardinality(handed) > PoolSize


==========================================================================
